---------------------------- MODULE Spec2Model ----------------------------
(***************************************************************************)
(* Model of the scan-solve orchestration of sudoku-buster (src/index.js):  *)
(* the click handlers onVideoClick, onCancel and onSudokuClick, the scan   *)
(* loop of onVideoClick with its suspension points (startWebcam,           *)
(* captureWebcam, scanPuzzle inside processImage, tf.nextFrame,            *)
(* saveScanMetrics), the per-frame pipeline of processImage and the        *)
(* session metrics (startTime, frameCount, markss).                        *)
(*                                                                         *)
(* JavaScript runs every handler and every continuation of an await to its *)
(* next await without interruption, so one action is one such run: the     *)
(* click handlers up to their first await, and the resumption of an        *)
(* awaited host operation (camera, recognition, animation frame, upload)   *)
(* up to the next await of a host operation.  The await of processImage    *)
(* and the un-awaited call of logPerformanceMetrics resume in the same     *)
(* microtask checkpoint and are part of the run that reaches them.         *)
(***************************************************************************)
EXTENDS Integers, Sequences, FiniteSets

\* ------------------------------------------------------------------ bounds
\* Number of invocations of onVideoClick that get past the check of
\* isWebcamStarted (index.js:125); those that bail are not limited.
MaxClicks == 2
\* Number of captureWebcam calls in a behaviour of Spec.
MaxCaptures == 2
\* Number of captureWebcam calls in a behaviour of SpecLog (long session).
MaxLogCaptures == 102
\* Number of captureWebcam calls in a behaviour of SpecRace (cancel, restart).
MaxRaceCaptures == 3

\* ------------------------------------------------------- program constants
\* index.js:97  if (digitPredictions.length < 17) return
MinClues == 17
\* index.js:102 solve(puzzle, { numSolutions: 1 })
numSolutions == 1
\* index.js:67  markss.slice(-100)
MaxSentMarks == 100

Invocations == 1..MaxClicks

VARIABLES
  pc,            \* position of each onVideoClick invocation: the await it is at,
                 \* or idle (not called yet), rejected (returned at index.js:140),
                 \* done (returned at index.js:180)
  result,        \* onVideoClick's local `result`
  imageData,     \* onVideoClick's local `imageData` of the iteration in flight
  webcamStarted, \* ./webcam: what isWebcamStarted() returns
  displayMode,   \* ./ui: the active display mode
  drawn,         \* ./ui: what drawPuzzle painted last
  cancelShown,   \* ./ui: cancel button shown with onCancel attached
  errorPanel,    \* ./errorPanel: shown or hidden
  startTime,     \* index.js:42
  frameCount,    \* index.js:43
  markss,        \* index.js:44
  hasMarks,      \* the browser holds performance entries of type 'mark'
  posted,        \* the bodies handed to axios.post('/api/scanMetrics'), in order
  cancelled,     \* history: onCancel ran while this invocation was in its loop
  failed,        \* history: an error other than a ScanException was caught in
                 \*          this invocation's loop
  scanned,       \* history: the invocation and frame of the scanPuzzle call whose
                 \*          resolution was the last step, if it was one (frame
                 \*          "ScanException" when it rejected with a ScanException)
  captures       \* history: number of captureWebcam calls

vars == <<pc, result, imageData, webcamStarted, displayMode, drawn, cancelShown,
          errorPanel, startTime, frameCount, markss, hasMarks, posted, cancelled,
          failed, scanned, captures>>

Min(a, b) == IF a < b THEN a ELSE b
Max(a, b) == IF a > b THEN a ELSE b

\* ------------------------------------------------------------ sudoku grids
\* A grid is a sequence of 81 cells, cell k at row (k-1) \div 9, column
\* (k-1) % 9; 0 is an empty cell.
Cells == 1..81
RowOf(k) == (k - 1) \div 9
ColOf(k) == (k - 1) % 9
BoxOf(k) == 3 * (RowOf(k) \div 3) + (ColOf(k) \div 3)

\* A complete valid grid, and the same grid with rows 4 and 5 exchanged.
BaseDigit(k) == ((3 * (RowOf(k) % 3) + (RowOf(k) \div 3) + ColOf(k)) % 9) + 1
BaseGrid == [k \in Cells |-> BaseDigit(k)]
SwapRow(k) == IF RowOf(k) = 4 THEN k + 9 ELSE IF RowOf(k) = 5 THEN k - 9 ELSE k
SwappedGrid == [k \in Cells |-> BaseDigit(SwapRow(k))]

\* digitPredictions: the recognized digits only, each with its cell index
\* (0-based as in the source) and digit.
Prediction(k, d) == [index |-> k - 1, digit |-> d]
FromBase(ks) == [n \in 1..Len(ks) |-> Prediction(ks[n], BaseDigit(ks[n]))]
Range(lo, hi) == [n \in 1..(hi - lo + 1) |-> lo + n - 1]

\* Frames the camera can deliver, by what the recognition finds in them.
\*  sparse:     16 digits, no conflict
\*  ambiguous:  17 digits (row 0 and most of row 1), no conflict, solvable in
\*              more than one way (rows 4 and 5 of a solution can be exchanged)
\*  unique:     72 digits, one empty cell in each row: one solution
\*  conflict:   17 digits, digit 1 twice in row 0
\*  dead:       17 digits, no conflict, cell (0,8) has no candidate left
FrameIds == {"sparse", "ambiguous", "unique", "conflict", "dead"}

OffDiagonal == SelectSeq(Range(1, 81), LAMBDA k : RowOf(k) # ColOf(k))

Catalog ==
  [f \in FrameIds |->
     CASE f = "sparse"    -> [dp |-> FromBase(Range(1, 16)), solutions |-> <<BaseGrid, SwappedGrid>>]
       [] f = "ambiguous" -> [dp |-> FromBase(Range(1, 17)), solutions |-> <<BaseGrid, SwappedGrid>>]
       [] f = "unique"    -> [dp |-> FromBase(OffDiagonal), solutions |-> <<BaseGrid>>]
       [] f = "conflict"  -> [dp |-> <<Prediction(1, 1), Prediction(2, 1)>> \o FromBase(Range(3, 17)),
                              solutions |-> <<>>]
       [] f = "dead"      -> [dp |-> FromBase(Range(1, 8)) \o <<Prediction(18, 9)>>
                                     \o FromBase(Range(10, 14)) \o FromBase(Range(19, 21)),
                              solutions |-> <<>>]]

\* ./scan: scanPuzzle is deterministic given the frame.
scanPuzzle(f) == Catalog[f].dp

\* ./puzzle: no repeated digit in any row, column or 3x3 box.
satisfiesAllConstraints(dp) ==
  \A a, b \in 1..Len(dp) :
    (a < b /\ dp[a].digit = dp[b].digit) =>
      /\ RowOf(dp[a].index + 1) # RowOf(dp[b].index + 1)
      /\ ColOf(dp[a].index + 1) # ColOf(dp[b].index + 1)
      /\ BoxOf(dp[a].index + 1) # BoxOf(dp[b].index + 1)

\* ./puzzle: the grid holding the recognized digits as clues.
digitPredictionsToPuzzle(dp) ==
  [k \in Cells |->
     IF \E n \in 1..Len(dp) : dp[n].index = k - 1
     THEN dp[CHOOSE n \in 1..Len(dp) : dp[n].index = k - 1].digit
     ELSE 0]

\* ./solve: the clues of the puzzle, as the renderer distinguishes them.
getInitialValues(puzzle) ==
  LET given == SelectSeq([k \in Cells |-> k], LAMBDA k : puzzle[k] # 0)
  IN  [n \in 1..Len(given) |-> [index |-> given[n] - 1, value |-> puzzle[given[n]]]]

\* Every satisfying assignment of a puzzle of the catalog (two of them stand
\* for "at least two").
AllSolutions(puzzle) ==
  LET f == CHOOSE g \in FrameIds : digitPredictionsToPuzzle(Catalog[g].dp) = puzzle
  IN  Catalog[f].solutions

\* ./solve: at most cap solutions, stopping once the cap is reached.
solve(puzzle, cap) ==
  LET all == AllSolutions(puzzle) IN SubSeq(all, 1, Min(Len(all), cap))

\* ./image
imageDataToDataURL(f) == <<"data:image/png", f>>

\* -------------------------------------------------------- session metrics
\* A slice from the front: markss.slice(0, 100).
sliceFromStart(mss, n) == SubSeq(mss, 1, Min(n, Len(mss)))

\* index.js:67 markss.slice(-100)
slice(mss, n) == SubSeq(mss, Max(1, Len(mss) - n + 1), Len(mss))

\* index.js:52-75: the body saveScanMetrics posts, without its clock
\* readings (timestamp, duration) and the version.
saveScanMetrics(outcome, imageDataURL, solution, fc, mss) ==
  [outcome |-> outcome, frameCount |-> fc,
   markss |-> slice(mss, MaxSentMarks), imageDataURL |-> imageDataURL,
   solution |-> solution]

\* index.js:77-90: frameCount and markss after logPerformanceMetrics, given
\* whether it reads any mark entry (mk).  The mark set pushed for an
\* iteration is represented by its ordinal in the session (mark sets of
\* different iterations differ in their timestamps).
logPerformanceMetrics(mk, fc, mss) ==
  IF ~mk
  THEN [frameCount |-> fc, markss |-> mss]
  ELSE [frameCount |-> fc + 1,
        markss |-> Append(mss, fc + 1)]

\* ----------------------------------------------------------- processImage
\* The clue-count gate off by one.
tooFewDigitsOffByOne(dp) == Len(dp) < MinClues - 1
\* The constraint gate with its negation lost.
failsConstraintsInverted(dp) == satisfiesAllConstraints(dp)

\* index.js:97
tooFewDigits(dp) == Len(dp) < MinClues
\* index.js:98
failsConstraints(dp) == ~satisfiesAllConstraints(dp)
\* The uniqueness gate letting an empty result through.
notOneSolutionMissesNone(solutions) == Len(solutions) > 1
\* index.js:104
notOneSolution(solutions) == Len(solutions) # 1
\* index.js:105 solutions[0], undefined (the empty tuple) for an empty array
first(solutions) == IF Len(solutions) > 0 THEN solutions[1] ELSE <<>>

\* The catch block showing the panel for every error.
showsErrorPanelAlways(isScanException) == TRUE
\* index.js:116-118
showsErrorPanel(isScanException) == ~isScanException

NoResult == [ok |-> FALSE, imageDataURL |-> <<>>, solution |-> <<>>]
NoScan == [by |-> 0, frame |-> "none"]
NoDrawing == [initialValues |-> <<>>, solution |-> <<>>]

\* index.js:94-113, from the resolution of scanPuzzle to the return: the
\* marks made, the collaborators called, what is drawn and what is returned.
processImage(f) ==
  LET dp == scanPuzzle(f)
      puzzle == digitPredictionsToPuzzle(dp)
      solutions == solve(puzzle, numSolutions)
      quit(mk, cs) == [marks |-> mk, calls |-> cs, drawn |-> NoDrawing, result |-> NoResult]
  IN  IF tooFewDigits(dp) THEN quit(<<"scanPuzzle">>, {})
      ELSE IF failsConstraints(dp) THEN quit(<<"scanPuzzle">>, {"satisfiesAllConstraints"})
      ELSE IF notOneSolution(solutions)
           THEN quit(<<"scanPuzzle", "satisfiesAllConstraints", "solve">>,
                     {"satisfiesAllConstraints", "digitPredictionsToPuzzle", "solve"})
      ELSE [marks |-> <<"scanPuzzle", "satisfiesAllConstraints", "solve", "drawPuzzle">>,
            calls |-> {"satisfiesAllConstraints", "digitPredictionsToPuzzle", "solve",
                       "drawPuzzle"},
            drawn |-> [initialValues |-> getInitialValues(puzzle), solution |-> first(solutions)],
            result |-> [ok |-> TRUE, imageDataURL |-> imageDataToDataURL(f),
                        solution |-> first(solutions)]]

\* processImage of each frame of the catalog, computed once.
processed == [f \in FrameIds |-> processImage(f)]

\* ------------------------------------------------------------------- Init
Init ==
  /\ pc = [i \in Invocations |-> "idle"]
  /\ result = [i \in Invocations |-> NoResult]
  /\ imageData = [i \in Invocations |-> "none"]
  /\ webcamStarted = FALSE
  /\ displayMode = "instructions"
  /\ drawn = NoDrawing
  /\ cancelShown = FALSE
  /\ errorPanel = FALSE
  /\ startTime = 0
  /\ frameCount = 0
  /\ markss = <<>>
  /\ hasMarks = FALSE
  /\ posted = <<>>
  /\ cancelled = [i \in Invocations |-> FALSE]
  /\ failed = [i \in Invocations |-> FALSE]
  /\ scanned = NoScan
  /\ captures = 0

\* The loop without its test (do ... while (true)).
loopContinuesAlways == TRUE
\* index.js:145 while (isWebcamStarted())
loopContinues == webcamStarted

InLoop(i) == pc[i] \in {"captureWebcam", "scanPuzzle", "nextFrame"}

\* ---------------------------------------------------------------- actions
\* The code after the loop without its call of stopWebcam.
AfterLoopWithoutStop(i, r, fc, mss) ==
  IF r.ok /\ webcamStarted
  THEN /\ cancelShown' = FALSE
       /\ posted' = Append(posted,
                      [by |-> i,
                       data |-> [outcome |-> "completed", frameCount |-> fc,
                                 markss |-> SubSeq(mss, Max(1, Len(mss) - MaxSentMarks + 1), Len(mss)),
                                 imageDataURL |-> r.imageDataURL, solution |-> r.solution]])
       /\ pc' = [pc EXCEPT ![i] = "saveScanMetrics"]
       /\ result' = [result EXCEPT ![i] = [ok |-> FALSE, imageDataURL |-> <<>>, solution |-> <<>>]]
       /\ UNCHANGED webcamStarted
  ELSE /\ pc' = [pc EXCEPT ![i] = "done"]
       /\ result' = [result EXCEPT ![i] = [ok |-> FALSE, imageDataURL |-> <<>>, solution |-> <<>>]]
       /\ UNCHANGED <<cancelShown, webcamStarted, posted>>

\* index.js:167-177: the code after the loop, entered with `result` r and
\* the metrics fc, mss the last iteration left.  The post of saveScanMetrics
\* is issued before the handler suspends; `result` is not read again and is
\* dropped.
AfterLoop(i, r, fc, mss) ==
  IF r.ok /\ webcamStarted
  THEN /\ cancelShown' = FALSE
       /\ webcamStarted' = FALSE
       /\ posted' = Append(posted,
                      [by |-> i,
                       data |-> saveScanMetrics("completed", r.imageDataURL, r.solution,
                                                fc, mss)])
       /\ pc' = [pc EXCEPT ![i] = "saveScanMetrics"]
       /\ result' = [result EXCEPT ![i] = NoResult]
  ELSE /\ pc' = [pc EXCEPT ![i] = "done"]
       /\ result' = [result EXCEPT ![i] = NoResult]
       /\ UNCHANGED <<cancelShown, webcamStarted, posted>>

\* index.js:123-133: a click on the video element, up to `await startWebcam`
\* or, with the webcam started, to the return of line 127 (the invocation is
\* over within the step and i names the next one).  performance.now() is the
\* ordinal of the invocation.
onVideoClick(i) ==
  /\ pc[i] = "idle"
  /\ \A j \in 1..(i - 1) : pc[j] # "idle"
  /\ IF webcamStarted
     THEN UNCHANGED <<pc, errorPanel, startTime, frameCount, markss>>
     ELSE /\ pc' = [pc EXCEPT ![i] = "startWebcam"]
          /\ errorPanel' = FALSE
          /\ startTime' = i
          /\ frameCount' = 0
          /\ markss' = <<>>
  /\ UNCHANGED <<result, imageData, webcamStarted, displayMode, drawn, cancelShown,
                 hasMarks, posted, cancelled, captures, failed>>
  /\ scanned' = NoScan

\* index.js:133-150: startWebcam resolved; the loop is entered and the first
\* captureWebcam is called.
startWebcamResolves(i, cap) ==
  /\ pc[i] = "startWebcam"
  /\ captures < cap
  /\ webcamStarted' = TRUE
  /\ displayMode' = "video"
  /\ cancelShown' = TRUE
  /\ result' = [result EXCEPT ![i] = NoResult]
  /\ hasMarks' = FALSE
  /\ captures' = captures + 1
  /\ pc' = [pc EXCEPT ![i] = "captureWebcam"]
  /\ UNCHANGED <<imageData, drawn, errorPanel, startTime, frameCount, markss, posted,
                 cancelled, failed>>
  /\ scanned' = NoScan

\* index.js:137-141: startWebcam rejected.
startWebcamRejects(i) ==
  /\ pc[i] = "startWebcam"
  /\ errorPanel' = TRUE
  /\ pc' = [pc EXCEPT ![i] = "rejected"]
  /\ UNCHANGED <<result, imageData, webcamStarted, displayMode, drawn, cancelShown,
                 startTime, frameCount, markss, hasMarks, posted, cancelled, captures, failed>>
  /\ scanned' = NoScan

\* index.js:150-153, 94: captureWebcam resolved with frame f; processImage
\* is called and scanPuzzle is awaited.
captureWebcamResolves(i, f) ==
  /\ pc[i] = "captureWebcam"
  /\ hasMarks' = TRUE
  /\ imageData' = [imageData EXCEPT ![i] = f]
  /\ pc' = [pc EXCEPT ![i] = "scanPuzzle"]
  /\ UNCHANGED <<result, webcamStarted, displayMode, drawn, cancelShown, errorPanel,
                 startTime, frameCount, markss, posted, cancelled, captures, failed>>
  /\ scanned' = NoScan

\* index.js:150-152, 158-162, 167: captureWebcam resolved with no frame (the
\* device was stopped): break, the finally block, the code after the loop.
captureWebcamAbsent(i) ==
  /\ pc[i] = "captureWebcam"
  /\ ~webcamStarted
  /\ LET mk == TRUE
         logged == logPerformanceMetrics(mk, frameCount, markss)
     IN  /\ hasMarks' = mk
         /\ frameCount' = logged.frameCount
         /\ markss' = logged.markss
         /\ AfterLoop(i, result[i], logged.frameCount, logged.markss)
  /\ UNCHANGED <<imageData, displayMode, drawn, errorPanel, startTime,
                 cancelled, captures, failed>>
  /\ scanned' = NoScan

\* index.js:155-164: captureWebcam rejected: the catch and finally blocks of
\* the loop, then `await tf.nextFrame()`.
captureWebcamRejects(i) ==
  /\ pc[i] = "captureWebcam"
  /\ errorPanel' = TRUE
  /\ LET logged == logPerformanceMetrics(hasMarks, frameCount, markss)
     IN  /\ frameCount' = logged.frameCount
         /\ markss' = logged.markss
  /\ pc' = [pc EXCEPT ![i] = "nextFrame"]
  /\ UNCHANGED <<result, imageData, webcamStarted, displayMode, drawn, cancelShown,
                 startTime, hasMarks, posted, cancelled, captures>>
  /\ scanned' = NoScan
  /\ failed' = [failed EXCEPT ![i] = TRUE]

\* index.js:94-113, 153-154, 158-177: scanPuzzle resolved; the rest of
\* processImage, then either break and the code after the loop, or
\* `await tf.nextFrame()`.
scanPuzzleResolves(i) ==
  /\ pc[i] = "scanPuzzle"
  /\ LET p == processed[imageData[i]]
         mk == hasMarks \/ Len(p.marks) > 0
         logged == logPerformanceMetrics(mk, frameCount, markss)
     IN  /\ hasMarks' = mk
         /\ frameCount' = logged.frameCount
         /\ markss' = logged.markss
         /\ IF p.result.ok
            THEN /\ displayMode' = "solution"
                 /\ drawn' = p.drawn
                 /\ AfterLoop(i, p.result, logged.frameCount, logged.markss)
            ELSE /\ pc' = [pc EXCEPT ![i] = "nextFrame"]
                 /\ result' = [result EXCEPT ![i] = p.result]
                 /\ UNCHANGED <<displayMode, drawn, cancelShown, webcamStarted, posted>>
  /\ imageData' = [imageData EXCEPT ![i] = "none"]
  /\ UNCHANGED <<errorPanel, startTime, cancelled, captures, failed>>
  /\ scanned' = [by |-> i, frame |-> imageData[i]]

\* index.js:114-120, 153-164: scanPuzzle rejected; processImage's catch
\* shows the error panel unless the error is a ScanException, and returns
\* undefined.
scanPuzzleRejects(i, isScanException) ==
  /\ pc[i] = "scanPuzzle"
  /\ errorPanel' = (errorPanel \/ showsErrorPanel(isScanException))
  /\ result' = [result EXCEPT ![i] = NoResult]
  /\ LET logged == logPerformanceMetrics(hasMarks, frameCount, markss)
     IN  /\ frameCount' = logged.frameCount
         /\ markss' = logged.markss
  /\ imageData' = [imageData EXCEPT ![i] = "none"]
  /\ pc' = [pc EXCEPT ![i] = "nextFrame"]
  /\ UNCHANGED <<webcamStarted, displayMode, drawn, cancelShown, startTime, hasMarks,
                 posted, cancelled, captures>>
  /\ scanned' = IF isScanException THEN [by |-> i, frame |-> "ScanException"] ELSE NoScan
  /\ failed' = [failed EXCEPT ![i] = failed[i] \/ ~isScanException]

\* index.js:164, 145-150, 167: tf.nextFrame resolved; the loop condition is
\* evaluated and either the next captureWebcam is called or the loop ends.
nextFrame(i, cap) ==
  /\ pc[i] = "nextFrame"
  /\ IF loopContinues
     THEN /\ captures < cap
          /\ hasMarks' = FALSE
          /\ captures' = captures + 1
          /\ pc' = [pc EXCEPT ![i] = "captureWebcam"]
          /\ UNCHANGED <<result, cancelShown, webcamStarted, posted>>
     ELSE /\ AfterLoop(i, result[i], frameCount, markss)
          /\ UNCHANGED <<hasMarks, captures>>
  /\ UNCHANGED <<imageData, displayMode, drawn, errorPanel, startTime,
                 frameCount, markss, cancelled, failed>>
  /\ scanned' = NoScan

\* saveScanMetrics letting the failure of the post through to its caller.
saveScanMetricsRethrows(ok) == ~ok
\* index.js:71-74: whether saveScanMetrics throws to its caller when the
\* post settles (ok: it succeeded); the catch block only logs a failure.
saveScanMetricsThrows(ok) == FALSE

\* index.js:172-179: the post of a 'completed' outcome settled, with success
\* or not; the catch block of the caller shows the error panel for an error
\* saveScanMetrics throws.
postSettles(i, ok) ==
  /\ pc[i] = "saveScanMetrics"
  /\ pc' = [pc EXCEPT ![i] = "done"]
  /\ errorPanel' = (errorPanel \/ saveScanMetricsThrows(ok))
  /\ UNCHANGED <<result, imageData, webcamStarted, displayMode, drawn, cancelShown,
                 startTime, frameCount, markss, hasMarks, posted, cancelled,
                 captures, failed>>
  /\ scanned' = NoScan

\* onCancel without its call of hideCancelButton.
onCancelKeepsButton ==
  /\ cancelShown
  /\ displayMode' = "instructions"
  /\ webcamStarted' = FALSE
  /\ posted' = Append(posted,
                 [by |-> 0,
                  data |-> [outcome |-> "cancelled", frameCount |-> frameCount,
                            markss |-> SubSeq(markss, Max(1, Len(markss) - MaxSentMarks + 1),
                                              Len(markss)),
                            imageDataURL |-> <<>>, solution |-> <<>>]])
  /\ cancelled' = [i \in Invocations |-> cancelled[i] \/ pc[i] \in {"captureWebcam", "scanPuzzle", "nextFrame"}]
  /\ UNCHANGED <<pc, result, imageData, drawn, errorPanel, startTime, frameCount,
                 markss, hasMarks, captures, failed, cancelShown>>
  /\ scanned' = [by |-> 0, frame |-> "none"]

\* index.js:182-193: a click on the cancel button.  The handler changes
\* nothing after its await of saveScanMetrics, which catches its own failure.
onCancel ==
  /\ cancelShown
  /\ displayMode' = "instructions"
  /\ cancelShown' = FALSE
  /\ webcamStarted' = FALSE
  /\ posted' = Append(posted,
                 [by |-> 0,
                  data |-> saveScanMetrics("cancelled", <<>>, <<>>, frameCount, markss)])
  /\ cancelled' = [i \in Invocations |-> cancelled[i] \/ InLoop(i)]
  /\ UNCHANGED <<pc, result, imageData, drawn, errorPanel, startTime, frameCount,
                 markss, hasMarks, captures, failed>>
  /\ scanned' = NoScan

\* index.js:195-196
onSudokuClick ==
  /\ displayMode' = "instructions"
  /\ UNCHANGED <<pc, result, imageData, webcamStarted, drawn, cancelShown, errorPanel,
                 startTime, frameCount, markss, hasMarks, posted, cancelled, captures, failed>>
  /\ scanned' = NoScan

Next ==
  \/ \E i \in Invocations : onVideoClick(i)
  \/ \E i \in Invocations : startWebcamResolves(i, MaxCaptures)
  \/ \E i \in Invocations : startWebcamRejects(i)
  \/ \E i \in Invocations, f \in FrameIds : captureWebcamResolves(i, f)
  \/ \E i \in Invocations : captureWebcamAbsent(i)
  \/ \E i \in Invocations : captureWebcamRejects(i)
  \/ \E i \in Invocations : scanPuzzleResolves(i)
  \/ \E i \in Invocations, e \in BOOLEAN : scanPuzzleRejects(i, e)
  \/ \E i \in Invocations : nextFrame(i, MaxCaptures)
  \/ \E i \in Invocations, ok \in BOOLEAN : postSettles(i, ok)
  \/ onCancel
  \/ onSudokuClick

Spec == Init /\ [][Next]_vars

\* One long session: a single start, frames without a solution until one
\* with a unique solution or a cancel ends it.
NextLog ==
  \/ onVideoClick(1)
  \/ startWebcamResolves(1, MaxLogCaptures)
  \/ \E f \in {"sparse", "unique"} : captureWebcamResolves(1, f)
  \/ scanPuzzleResolves(1)
  \/ nextFrame(1, MaxLogCaptures)
  \/ \E ok \in BOOLEAN : postSettles(1, ok)
  \/ onCancel

SpecLog == Init /\ [][NextLog]_vars

\* A cancel followed by a new start: every handler and completion, over the
\* frames without a solution and with a unique one, with room for the
\* capture that follows the second start.
NextRace ==
  \/ \E i \in Invocations : onVideoClick(i)
  \/ \E i \in Invocations : startWebcamResolves(i, MaxRaceCaptures)
  \/ \E i \in Invocations : startWebcamRejects(i)
  \/ \E i \in Invocations, f \in {"sparse", "unique"} : captureWebcamResolves(i, f)
  \/ \E i \in Invocations : captureWebcamAbsent(i)
  \/ \E i \in Invocations : captureWebcamRejects(i)
  \/ \E i \in Invocations : scanPuzzleResolves(i)
  \/ \E i \in Invocations, e \in BOOLEAN : scanPuzzleRejects(i, e)
  \/ \E i \in Invocations : nextFrame(i, MaxRaceCaptures)
  \/ \E i \in Invocations, ok \in BOOLEAN : postSettles(i, ok)
  \/ onCancel
  \/ onSudokuClick

SpecRace == Init /\ [][NextRace]_vars

\* ------------------------------------------------------------ properties
\* What the collaborators make of each frame of the catalog: the number of
\* recognized digits, whether they satisfy the constraints, the clues of the
\* puzzle, the number of its satisfying assignments (2 for two or more),
\* and what solve returns for the cap the orchestrator passes.
FrameFacts ==
  [f \in FrameIds |->
     LET dp == scanPuzzle(f)
         puzzle == digitPredictionsToPuzzle(dp)
     IN  [digits |-> Len(dp),
          valid |-> satisfiesAllConstraints(dp),
          clues |-> getInitialValues(puzzle),
          assignments |-> Len(AllSolutions(puzzle)),
          returned |-> solve(puzzle, numSolutions)]]

Completed(by) == {k \in DOMAIN posted : posted[k].by = by /\ posted[k].data.outcome = "completed"}
\* The invocations whose startWebcam has resolved.
Started == {i \in Invocations : pc[i] \notin {"idle", "startWebcam", "rejected"}}
Cancellations == {k \in DOMAIN posted : posted[k].data.outcome = "cancelled"}

\* C1: at most one scan loop of onVideoClick is active at any time, whatever
\* the interleaving of clicks, completions and frame ticks.
C1_OneLoopAtATime == Cardinality({i \in Invocations : InLoop(i)}) <= 1

\* C2: once onCancel has run during an invocation's loop, that loop never
\* calls captureWebcam again.
C2_NoIterationAfterCancel ==
  [][\A i \in Invocations :
       (cancelled[i] /\ pc'[i] = "captureWebcam") => pc[i] = "captureWebcam"]_vars

\* C3: when the loop of a cancelled session exits, the display mode is
\* instructions, and no scan of a cancelled session ends in a rendered
\* solution (a scan that renders one leaves the loop).
C3_CancelLeavesInstructions ==
  [][\A i \in Invocations :
       cancelled[i] =>
         /\ (InLoop(i) /\ ~InLoop(i)') => displayMode' = "instructions"
         /\ pc[i] = "scanPuzzle" => pc'[i] \in {"scanPuzzle", "nextFrame"}]_vars

\* C4: a cancel hides the cancel button, stops the webcam and posts the
\* outcome 'cancelled' once; an invocation whose loop was cancelled never
\* posts 'completed'.
C4_CancelPersistsCancelledOnly ==
  [][/\ (cancelShown /\ Cancellations' # Cancellations) =>
          /\ ~cancelShown'
          /\ ~webcamStarted'
          /\ Len(posted') = Len(posted) + 1
          /\ Cardinality(Cancellations') = Cardinality(Cancellations) + 1
     /\ \A i \in Invocations : cancelled'[i] => Completed(i)' = {}]_vars

\* C5: what drawPuzzle painted is always the solution of a puzzle with
\* exactly one satisfying assignment.
C5_OnlyUniqueSolutionSurfaced ==
  drawn # NoDrawing =>
    \E f \in FrameIds : FrameFacts[f].assignments = 1 /\ drawn.initialValues = FrameFacts[f].clues

\* C6: an error other than a ScanException caught in an iteration shows the
\* error panel and ends the loop: the invocation calls neither captureWebcam
\* nor scanPuzzle again.
C6_UnexpectedErrorStopsLoop ==
  [][\A i \in Invocations :
       /\ (failed'[i] /\ ~failed[i]) => errorPanel'
       /\ (failed[i] /\ pc'[i] \in {"captureWebcam", "scanPuzzle"}) => pc'[i] = pc[i]]_vars

C8_UniqueSolutionSucceeds ==
  [][\A i \in Invocations :
       LET facts == FrameFacts[imageData[i]]
       IN  (/\ scanPuzzleResolves(i)
            /\ webcamStarted
            /\ ~cancelled[i]
            /\ facts.digits >= MinClues
            /\ facts.valid
            /\ Len(facts.returned) = 1)
           => /\ displayMode' = "solution"
              /\ drawn' = [initialValues |-> facts.clues, solution |-> facts.returned[1]]
              /\ pc'[i] = "saveScanMetrics"
              /\ ~cancelShown'
              /\ ~webcamStarted'
              /\ posted' = Append(posted,
                             [by |-> i,
                              data |-> [outcome |-> "completed",
                                        frameCount |-> frameCount',
                                        markss |-> slice(markss', MaxSentMarks),
                                        imageDataURL |-> imageDataToDataURL(imageData[i]),
                                        solution |-> facts.returned[1]]])
              /\ Cardinality({k \in DOMAIN posted' : posted'[k].by = i}) = 1]_vars

C8_Witness ==
  /\ scanned.frame \in FrameIds
  /\ FrameFacts[scanned.frame].digits >= MinClues
  /\ FrameFacts[scanned.frame].valid
  /\ FrameFacts[scanned.frame].assignments = 1
  /\ ~cancelled[scanned.by]
  /\ pc[scanned.by] = "saveScanMetrics"
  /\ displayMode = "solution"
  /\ Completed(scanned.by) # {}

\* C9: when scanPuzzle resolves on a frame with fewer than 17 digits, the
\* step calls neither digitPredictionsToPuzzle nor solve, leaves the display
\* mode and the drawing as they are, posts nothing and goes on to await the
\* next frame.
C9_ClueCountGate ==
  [][\A i \in Invocations :
       (scanPuzzleResolves(i) /\ FrameFacts[imageData[i]].digits < MinClues)
       => /\ processed[imageData[i]].calls \cap {"digitPredictionsToPuzzle", "solve", "drawPuzzle"} = {}
          /\ displayMode' = displayMode
          /\ drawn' = drawn
          /\ posted' = posted
          /\ pc'[i] = "nextFrame"]_vars

C9_Witness ==
  /\ scanned.frame \in FrameIds
  /\ FrameFacts[scanned.frame].digits = MinClues - 1
  /\ pc[scanned.by] = "nextFrame"
  /\ displayMode = "video"

\* C10: when scanPuzzle resolves on a frame whose digits violate row, column
\* or box uniqueness, the step builds no puzzle and does not call solve, and
\* goes on to await the next frame.
C10_ConstraintGate ==
  [][\A i \in Invocations :
       (scanPuzzleResolves(i) /\ ~FrameFacts[imageData[i]].valid)
       => /\ processed[imageData[i]].calls \cap {"digitPredictionsToPuzzle", "solve", "drawPuzzle"} = {}
          /\ displayMode' = displayMode
          /\ drawn' = drawn
          /\ pc'[i] = "nextFrame"]_vars

C10_Witness ==
  /\ scanned.frame \in FrameIds
  /\ FrameFacts[scanned.frame].digits >= MinClues
  /\ ~FrameFacts[scanned.frame].valid
  /\ pc[scanned.by] = "nextFrame"

\* C11: when scanPuzzle resolves on a frame that passes both gates and for
\* which solve returns a number of solutions other than 1, the step leaves
\* the display mode and the drawing as they are, posts nothing and goes on
\* to await the next frame.
C11_NotOneSolutionIsNoMatch ==
  [][\A i \in Invocations :
       LET facts == FrameFacts[imageData[i]]
       IN  (/\ scanPuzzleResolves(i)
            /\ facts.digits >= MinClues
            /\ facts.valid
            /\ Len(facts.returned) # 1)
           => /\ displayMode' = displayMode
              /\ drawn' = drawn
              /\ posted' = posted
              /\ pc'[i] = "nextFrame"]_vars

C11_Witness ==
  /\ scanned.frame \in FrameIds
  /\ "solve" \in processed[scanned.frame].calls
  /\ Len(FrameFacts[scanned.frame].returned) = 0
  /\ pc[scanned.by] = "nextFrame"
  /\ displayMode = "video"

\* C12: when startWebcam rejects, the step shows the error panel, leaves
\* the display mode and the cancel button as they are, captures no frame,
\* posts nothing and ends the invocation outside the loop; and the session
\* timer was not started by that invocation (startTime does not hold the
\* clock reading of the invocation whose start failed).
C12_FailedStartStartsNothing ==
  [][\A i \in Invocations :
       startWebcamRejects(i)
       => /\ errorPanel'
          /\ displayMode' = displayMode
          /\ cancelShown' = cancelShown
          /\ captures' = captures
          /\ posted' = posted
          /\ ~InLoop(i)'
          /\ startTime' # i]_vars

\* C13: once an error other than a ScanException was caught in an iteration
\* of an invocation, no outcome is posted for that invocation any more:
\* it posts no 'completed', and no 'cancelled' is posted while its loop runs.
C13_FailedSessionPostsNothing ==
  [][\A i \in Invocations :
       failed[i] =>
         /\ Completed(i)' = Completed(i)
         /\ InLoop(i) => Cancellations' = Cancellations]_vars

\* C14: when scanPuzzle rejects with a ScanException, the step leaves the
\* error panel, the display mode and the webcam as they are, posts nothing
\* and goes on to await the next frame.
C14_ScanExceptionSwallowed ==
  [][\A i \in Invocations :
       scanPuzzleRejects(i, TRUE)
       => /\ errorPanel' = errorPanel
          /\ displayMode' = displayMode
          /\ webcamStarted' = webcamStarted
          /\ cancelShown' = cancelShown
          /\ posted' = posted
          /\ pc'[i] = "nextFrame"]_vars

C14_Witness ==
  /\ scanned.frame = "ScanException"
  /\ pc[scanned.by] = "nextFrame"
  /\ ~errorPanel
  /\ webcamStarted
  /\ displayMode = "video"

\* C15: when the post of saveScanMetrics settles, with success or not, the
\* error panel, the display mode, the cancel button and the webcam stay as
\* they are, and a failed post leaves the same state as a successful one;
\* and while a post is in flight with the webcam stopped, a click on the
\* video element starts a new session.
C15_TelemetryNeverAffectsOutcome ==
  [][/\ \A i \in Invocations, ok \in BOOLEAN :
          postSettles(i, ok)
          => /\ errorPanel' = errorPanel
             /\ displayMode' = displayMode
             /\ cancelShown' = cancelShown
             /\ webcamStarted' = webcamStarted
             /\ postSettles(i, TRUE)
     /\ ((\E i \in Invocations : pc[i] = "saveScanMetrics")
          /\ ~webcamStarted /\ (\E j \in Invocations : pc[j] = "idle"))
        => ENABLED (\E j \in Invocations : onVideoClick(j) /\ pc'[j] = "startWebcam")]_vars

C15_Witness ==
  \E i, j \in Invocations :
    /\ pc[i] = "saveScanMetrics"
    /\ Completed(i) # {}
    /\ pc[j] = "captureWebcam"
    /\ webcamStarted
    /\ displayMode = "video"
    /\ ~errorPanel

\* C16: every step that ends an iteration of the loop (no frame, a gate,
\* a ScanException, another error before or after the capture, success)
\* increments frameCount by one and appends one mark set to markss.
C16_BookkeepingAlwaysRuns ==
  [][\A i \in Invocations :
       (pc[i] \in {"captureWebcam", "scanPuzzle"} /\ pc'[i] \notin {"captureWebcam", "scanPuzzle"})
       => /\ frameCount' = frameCount + 1
          /\ Len(markss') = Len(markss) + 1]_vars

C18_StoppedWebcamNotPolled ==
  [][\A i \in Invocations :
       (pc'[i] = "captureWebcam" /\ pc[i] # "captureWebcam") => webcamStarted']_vars

C18_Witness ==
  \E i, j \in Invocations :
    /\ cancelled[i]
    /\ pc[i] = "done"
    /\ pc[j] = "captureWebcam"
    /\ webcamStarted

\* C19: the outcomes posted are at most as many as the starts of the webcam
\* that succeeded, no invocation posts 'completed' twice, and no invocation
\* whose loop was cancelled (for which 'cancelled' was posted) also posts
\* 'completed'.
C19_OneOutcomePerSession ==
  /\ Len(posted) <= Cardinality(Started)
  /\ \A i \in Invocations :
       /\ Cardinality(Completed(i)) <= 1
       /\ ~(cancelled[i] /\ Completed(i) # {})

\* C20: in every state the handlers yield in, the cancel button is shown
\* exactly when the webcam is started; so onCancel runs only with the webcam
\* started, and it leaves the button hidden: it cannot run again before
\* another start.
C20_CancelShownIffWebcamStarted ==
  [][/\ cancelShown' <=> webcamStarted'
     /\ onCancel => (webcamStarted /\ ~cancelShown' /\ ~webcamStarted')]_vars

C20_Witness ==
  /\ cancelShown
  /\ webcamStarted
  /\ Cancellations # {}

=============================================================================
